---- MODULE Spec2Model ----
(***************************************************************************)
(* data/books/download_books.py: a sequential batch download of a fixed    *)
(* list of Project Gutenberg books.  One process, one program counter;     *)
(* the environment (server, file system, platform) chooses the outcome of  *)
(* every blocking call.                                                    *)
(***************************************************************************)
EXTENDS Integers, Sequences, FiniteSets, TLC

VARIABLES
    pc,          \* position of the process in the script
    run,         \* number of the current run of the script (files outlive a run)
    linesep,     \* os.linesep of the platform, as code points
    files,       \* the file system under OUTPUT_DIR: path -> bytes, or Absent
    conns,       \* open HTTP responses (connections)
    fhs,         \* open file handles, by path
    i,           \* loop position in BOOKS: number of items taken so far
    url,         \* local of download_gutenberg_book
    content,     \* local of download_gutenberg_book: the decoded text
    output_path, \* local of download_gutenberg_book
    exc,         \* exception in flight (a class name), or None
    ret,         \* value returned by the last call of download_gutenberg_book
    log,         \* lines printed to the console in this run
    attempted,   \* history: items handed to download_gutenberg_book in this run
    requests,    \* history: URLs passed to urlopen in this run
    fetched,     \* history: body bytes read by the current call
    before       \* history: the item's output file when the current call began

vars == <<pc, run, linesep, files, conns, fhs, i, url, content, output_path,
          exc, ret, log, attempted, requests, fetched, before>>

\* Values of unset variables, one per type.
None == "None"                                   \* no exception in flight
NoUrl == [host |-> "", epub |-> 0, pg |-> 0]
NoPath == [dir |-> "", name |-> "", ext |-> ""]  \* no path (yet), no value returned
Unbound == <<-1>>                                \* a text or body not assigned yet

\* A path of the file system names no file, or a file holding bytes.
Absent == [exists |-> FALSE, bytes |-> <<>>]
FileOf(bytes) == [exists |-> TRUE, bytes |-> bytes]

\* ------------------------------------------------------------------ bounds
NumBooks == 2      \* the model iterates over the first NumBooks entries of BOOKS
MaxRuns == 2       \* runs of the script over the same output directory

\* ------------------------------------------------------------ program data
BOOKS == <<
    <<1342, "pride-and-prejudice">>,
    <<2701, "moby-dick">>,
    <<84, "frankenstein">>,
    <<76, "adventures-of-huckleberry-finn">>,
    <<1661, "adventures-of-sherlock-holmes">>,
    <<1400, "great-expectations">>,
    <<2600, "war-and-peace">>,
    <<2554, "crime-and-punishment">>,
    <<219, "heart-of-darkness">>,
    <<829, "gullivers-travels">> >>

Items == SubSeq(BOOKS, 1, NumBooks)

OUTPUT_DIR == "data/books"

\* f"https://www.gutenberg.org/cache/epub/{book_id}/pg{book_id}.txt": the two
\* template positions are kept apart.
Url(book_id) ==
    [host |-> "www.gutenberg.org", epub |-> book_id, pg |-> book_id]

\* A bug that saves every book under the name of the first one.
OutputPathFirst(filename) ==
    [dir |-> OUTPUT_DIR, name |-> BOOKS[1][2], ext |-> ".txt"]

\* OUTPUT_DIR / f"{filename}.txt"
OutputPath(filename) ==
    [dir |-> OUTPUT_DIR, name |-> filename, ext |-> ".txt"]

\* The paths the file system is observed at.
Paths == {[dir |-> OUTPUT_DIR, name |-> Items[k][2], ext |-> ".txt"] : k \in 1..Len(Items)}

\* -------------------------------------------------------------- UTF-8 codec
\* Number of bytes of the sequence a lead byte starts; 0 for a byte that
\* starts none (a continuation byte, 0xC0, 0xC1, 0xF5..0xFF).
LeadLen(b) ==
    IF b < 128 THEN 1
    ELSE IF b \in 194..223 THEN 2
    ELSE IF b \in 224..239 THEN 3
    ELSE IF b \in 240..244 THEN 4
    ELSE 0

\* The range of the second byte: overlong forms, surrogates and code points
\* above U+10FFFF are rejected.
SecondOK(b, b2) ==
    IF b = 224 THEN b2 \in 160..191
    ELSE IF b = 237 THEN b2 \in 128..159
    ELSE IF b = 240 THEN b2 \in 144..191
    ELSE IF b = 244 THEN b2 \in 128..143
    ELSE b2 \in 128..191

WellFormedAt(bs, k, n) ==
    /\ n > 0
    /\ k + n - 1 <= Len(bs)
    /\ n >= 2 => SecondOK(bs[k], bs[k + 1])
    /\ \A j \in 2..(n - 1) : bs[k + j] \in 128..191

CodePointAt(bs, k, n) ==
    IF n = 1 THEN bs[k]
    ELSE IF n = 2 THEN (bs[k] - 192) * 64 + (bs[k + 1] - 128)
    ELSE IF n = 3 THEN
        (bs[k] - 224) * 4096 + (bs[k + 1] - 128) * 64 + (bs[k + 2] - 128)
    ELSE (bs[k] - 240) * 262144 + (bs[k + 1] - 128) * 4096
             + (bs[k + 2] - 128) * 64 + (bs[k + 3] - 128)

RECURSIVE DecodeFrom(_, _)
DecodeFrom(bs, k) ==
    IF k > Len(bs) THEN [ok |-> TRUE, text |-> <<>>]
    ELSE LET n == LeadLen(bs[k]) IN
         IF ~WellFormedAt(bs, k, n) THEN [ok |-> FALSE, text |-> <<>>]
         ELSE LET rest == DecodeFrom(bs, k + n) IN
              IF rest.ok
              THEN [ok |-> TRUE, text |-> <<CodePointAt(bs, k, n)>> \o rest.text]
              ELSE rest

\* bytes.decode("utf-8") (strict): the code points, or a UnicodeDecodeError.
Decode(bs) == DecodeFrom(bs, 1)

EncodeChar(cp) ==
    IF cp < 128 THEN <<cp>>
    ELSE IF cp < 2048 THEN <<192 + (cp \div 64), 128 + (cp % 64)>>
    ELSE IF cp < 65536 THEN
        <<224 + (cp \div 4096), 128 + ((cp \div 64) % 64), 128 + (cp % 64)>>
    ELSE <<240 + (cp \div 262144), 128 + ((cp \div 4096) % 64),
           128 + ((cp \div 64) % 64), 128 + (cp % 64)>>

RECURSIVE Encode(_)
Encode(text) ==
    IF text = <<>> THEN <<>> ELSE EncodeChar(Head(text)) \o Encode(Tail(text))

\* A text-mode stream opened with newline=None writes every "\n" as os.linesep.
RECURSIVE TranslateNewlines(_, _)
TranslateNewlines(text, sep) ==
    IF text = <<>> THEN <<>>
    ELSE (IF Head(text) = 10 THEN sep ELSE <<Head(text)>>)
             \o TranslateNewlines(Tail(text), sep)

\* The bytes open(path, "w", encoding="utf-8").write(text) puts in the file.
TextWrite(text, sep) == Encode(TranslateNewlines(text, sep))

\* ------------------------------------------------------------- environment
\* os.linesep: "\n" on POSIX, "\r\n" on Windows.
LineSeps == {<<10>>, <<13, 10>>}

\* Response bodies the server may send: the empty body, "A", "e-acute LF", a
\* truncated two-byte sequence, and a byte that starts no UTF-8 sequence.
Bodies == {<<>>, <<65>>, <<195, 169, 10>>, <<195>>, <<255, 65>>}

\* The superclass of each exception class the calls can raise.
Parent ==
    [HTTPError |-> "URLError", URLError |-> "OSError",
     ConnectionResetError |-> "OSError", OSError |-> "Exception",
     UnicodeDecodeError |-> "ValueError", ValueError |-> "Exception",
     Exception |-> "BaseException", BaseException |-> "object"]

RECURSIVE IsSubclass(_, _)
IsSubclass(cls, base) ==
    IF cls = base THEN TRUE
    ELSE IF cls = "object" THEN FALSE
    ELSE IsSubclass(Parent[cls], base)

CatchesURLErrorOnly(cls) == IsSubclass(cls, "URLError")

\* except Exception as e
Catches(cls) == IsSubclass(cls, "Exception")

\* The item of the current iteration: for book_id, filename in BOOKS
book_id == Items[i][1]
filename == Items[i][2]

\* A console line: its fixed text, the file name and the cause it names, and
\* the count it names.
Line(kind, name, cause, n) == [kind |-> kind, name |-> name, cause |-> cause, n |-> n]

\* -------------------------------------------------------------------- Init
Init ==
    /\ pc = "main"
    /\ run = 1
    /\ linesep \in LineSeps
    /\ files = [p \in Paths |-> Absent]
    /\ conns = {}
    /\ fhs = {}
    /\ i = 0
    /\ url = NoUrl
    /\ content = Unbound
    /\ output_path = NoPath
    /\ exc = None
    /\ ret = NoPath
    /\ log = <<>>
    /\ attempted = <<>>
    /\ requests = <<>>
    /\ fetched = Unbound
    /\ before = Absent

\* ----------------------------------------------------------------- actions
\* __main__: the two opening print calls, then download_all_books().
MainStart ==
    /\ pc = "main"
    /\ log' = log \o <<Line("Downloading", "", "", Len(Items)),
                       Line("Saving to", OUTPUT_DIR, "", 0)>>
    /\ pc' = "for"
    /\ UNCHANGED <<run, linesep, files, conns, fhs, i, url, content,
                   output_path, exc, ret, attempted, requests, fetched, before>>

\* for book_id, filename in BOOKS: take the next item and call
\* download_gutenberg_book(book_id, filename), which builds the URL and the
\* Request; or leave the loop and return to __main__.
For ==
    /\ pc = "for"
    /\ IF i < Len(Items)
       THEN /\ i' = i + 1
            /\ attempted' = Append(attempted, Items[i + 1])
            /\ url' = Url(Items[i + 1][1])
            /\ content' = Unbound
            /\ output_path' = NoPath
            /\ ret' = NoPath
            /\ fetched' = Unbound
            /\ before' = files[[dir |-> OUTPUT_DIR, name |-> Items[i + 1][2],
                                ext |-> ".txt"]]
            /\ pc' = "urlopen"
       ELSE /\ pc' = "print_done"
            /\ UNCHANGED <<i, attempted, url, content, output_path, ret,
                           fetched, before>>
    /\ UNCHANGED <<run, linesep, files, conns, fhs, exc, log, requests>>

\* A bug that asks again after a failed request.
UrlOpenRetry ==
    /\ pc = "urlopen"
    /\ requests' = Append(requests, url)
    /\ \/ /\ \E cls \in {"URLError", "HTTPError"} : TRUE
          /\ UNCHANGED <<pc, exc, conns>>
       \/ \E body \in Bodies :
             /\ conns' = conns \cup {[url |-> url, body |-> body]}
             /\ pc' = "read"
             /\ UNCHANGED exc
    /\ UNCHANGED <<run, linesep, files, fhs, i, url, content, output_path,
                   ret, log, attempted, fetched, before>>

\* urllib.request.urlopen(request): one GET.  The host is unreachable
\* (URLError), the status is not a success (HTTPError), or a response is
\* returned and entered as the context of the with statement.
UrlOpen ==
    /\ pc = "urlopen"
    /\ requests' = Append(requests, url)
    /\ \/ \E cls \in {"URLError", "HTTPError"} :
             /\ exc' = cls
             /\ pc' = "except"
             /\ UNCHANGED conns
       \/ \E body \in Bodies :
             /\ conns' = conns \cup {[url |-> url, body |-> body]}
             /\ pc' = "read"
             /\ UNCHANGED exc
    /\ UNCHANGED <<run, linesep, files, fhs, i, url, content, output_path,
                   ret, log, attempted, fetched, before>>

\* A bug that closes the response only on the path without an exception.
CloseResponseOnSuccessOnly(response, raised) ==
    IF raised THEN conns ELSE conns \ {response}

\* The exit of `with urlopen(request) as response`: the response is closed
\* whether or not the body raised.
CloseResponse(response, raised) == conns \ {response}

\* A bug that opens the output file before the body is read and decoded.
ReadDecodeAfterOpen ==
    /\ pc = "read"
    /\ \E response \in {c \in conns : c.url = url} :
          \/ /\ exc' = "ConnectionResetError"
             /\ conns' = CloseResponse(response, TRUE)
             /\ pc' = "except"
             /\ files' = [files EXCEPT ![OutputPath(filename)] = FileOf(<<>>)]
             /\ UNCHANGED <<content, fetched>>
          \/ /\ ~Decode(response.body).ok
             /\ exc' = "UnicodeDecodeError"
             /\ conns' = CloseResponse(response, TRUE)
             /\ pc' = "except"
             /\ files' = [files EXCEPT ![OutputPath(filename)] = FileOf(<<>>)]
             /\ UNCHANGED <<content, fetched>>
          \/ /\ Decode(response.body).ok
             /\ content' = Decode(response.body).text
             /\ fetched' = response.body
             /\ conns' = CloseResponse(response, FALSE)
             /\ pc' = "open"
             /\ files' = [files EXCEPT ![OutputPath(filename)] = FileOf(<<>>)]
             /\ UNCHANGED exc
    /\ UNCHANGED <<run, linesep, fhs, i, url, output_path, ret, log,
                   attempted, requests, before>>

\* content = response.read().decode("utf-8"), then the exit of the with
\* statement.  The read fails on a broken connection, the decoding fails on
\* bytes that are not UTF-8, or content holds the decoded text.
ReadDecode ==
    /\ pc = "read"
    /\ \E response \in {c \in conns : c.url = url} :
          \/ /\ exc' = "ConnectionResetError"
             /\ conns' = CloseResponse(response, TRUE)
             /\ pc' = "except"
             /\ UNCHANGED <<content, fetched>>
          \/ /\ ~Decode(response.body).ok
             /\ exc' = "UnicodeDecodeError"
             /\ conns' = CloseResponse(response, TRUE)
             /\ pc' = "except"
             /\ UNCHANGED <<content, fetched>>
          \/ /\ Decode(response.body).ok
             /\ content' = Decode(response.body).text
             /\ fetched' = response.body
             /\ conns' = CloseResponse(response, FALSE)
             /\ pc' = "open"
             /\ UNCHANGED exc
    /\ UNCHANGED <<run, linesep, files, fhs, i, url, output_path, ret, log,
                   attempted, requests, before>>

\* output_path = OUTPUT_DIR / f"{filename}.txt"; open(output_path, "w",
\* encoding="utf-8"): the open fails and leaves the file system as it is, or
\* creates the file or truncates it, and the handle is entered as the context
\* of the with statement.
OpenFile ==
    /\ pc = "open"
    /\ output_path' = OutputPath(filename)
    /\ \/ /\ exc' = "OSError"
          /\ pc' = "except"
          /\ UNCHANGED <<files, fhs>>
       \/ /\ files' = [files EXCEPT ![output_path'] = FileOf(<<>>)]
          /\ fhs' = fhs \cup {output_path'}
          /\ pc' = "write"
          /\ UNCHANGED exc
    /\ UNCHANGED <<run, linesep, conns, i, url, content, ret, log, attempted,
                   requests, fetched, before>>

\* The exit of `with open(...) as f`: the handle is closed whether or not the
\* body raised.
CloseFile(path, raised) == fhs \ {path}

\* f.write(content) and the flush and close at the exit of the with statement:
\* all the bytes reach the file and the call goes on, or an OSError is raised
\* when some leading part of them (none, some, or all with the close failing)
\* has reached the file.
WriteFile ==
    /\ pc = "write"
    /\ LET data == TextWrite(content, linesep) IN
       \/ /\ files' = [files EXCEPT ![output_path] = FileOf(data)]
          /\ fhs' = CloseFile(output_path, FALSE)
          /\ pc' = "print_ok"
          /\ UNCHANGED exc
       \/ \E n \in 0..Len(data) :
             /\ files' = [files EXCEPT ![output_path] = FileOf(SubSeq(data, 1, n))]
             /\ fhs' = CloseFile(output_path, TRUE)
             /\ exc' = "OSError"
             /\ pc' = "except"
    /\ UNCHANGED <<run, linesep, conns, i, url, content, output_path, ret,
                   log, attempted, requests, fetched, before>>

\* print(f"Downloaded: {filename}.txt"); return output_path
PrintDownloaded ==
    /\ pc = "print_ok"
    /\ log' = Append(log, Line("Downloaded", filename, "", 0))
    /\ ret' = output_path
    /\ pc' = "for"
    /\ UNCHANGED <<run, linesep, files, conns, fhs, i, url, content,
                   output_path, exc, attempted, requests, fetched, before>>

\* A bug that leaves the loop at the first failure.
ExceptBreak ==
    /\ pc = "except"
    /\ log' = Append(log, Line("Failed to download", filename, exc, 0))
    /\ exc' = None
    /\ i' = Len(Items)
    /\ pc' = "for"
    /\ UNCHANGED <<run, linesep, files, conns, fhs, url, content,
                   output_path, ret, attempted, requests, fetched, before>>

\* A bug that swallows the failure without a line.
ExceptSilent ==
    /\ pc = "except"
    /\ exc' = None
    /\ pc' = "for"
    /\ UNCHANGED <<run, linesep, files, conns, fhs, i, url, content,
                   output_path, ret, log, attempted, requests, fetched, before>>

\* The exception leaves download_gutenberg_book.  except Exception as e:
\* print(f"Failed to download {filename}: {e}") and on to the next item; an
\* exception the clause does not catch leaves download_all_books and ends the
\* process with a traceback.
Except ==
    /\ pc = "except"
    /\ IF Catches(exc)
       THEN /\ log' = Append(log, Line("Failed to download", filename, exc, 0))
            /\ exc' = None
            /\ pc' = "for"
       ELSE /\ pc' = "crashed"
            /\ UNCHANGED <<log, exc>>
    /\ UNCHANGED <<run, linesep, files, conns, fhs, i, url, content,
                   output_path, ret, attempted, requests, fetched, before>>

\* A bug that ends the process with a failure status when an item failed.
PrintDoneExitOnFailure ==
    /\ pc = "print_done"
    /\ IF \E k \in 1..Len(log) : log[k].kind = "Failed to download"
       THEN pc' = "crashed" /\ UNCHANGED log
       ELSE log' = Append(log, Line("Done!", "", "", 0)) /\ pc' = "done"
    /\ UNCHANGED <<run, linesep, files, conns, fhs, i, url, content,
                   output_path, exc, ret, attempted, requests, fetched, before>>

\* print("\nDone!"), and the script ends with exit status 0.
PrintDone ==
    /\ pc = "print_done"
    /\ log' = Append(log, Line("Done!", "", "", 0))
    /\ pc' = "done"
    /\ UNCHANGED <<run, linesep, files, conns, fhs, i, url, content,
                   output_path, exc, ret, attempted, requests, fetched, before>>

\* The script is run again on the same platform and output directory: a new
\* process, and only the files are carried over.
Rerun ==
    /\ pc = "done"
    /\ run < MaxRuns
    /\ run' = run + 1
    /\ pc' = "main"
    /\ conns' = {}
    /\ fhs' = {}
    /\ i' = 0
    /\ url' = NoUrl
    /\ content' = Unbound
    /\ output_path' = NoPath
    /\ exc' = None
    /\ ret' = NoPath
    /\ log' = <<>>
    /\ attempted' = <<>>
    /\ requests' = <<>>
    /\ fetched' = Unbound
    /\ before' = Absent
    /\ UNCHANGED <<linesep, files>>

\* One run of the script.
Step ==
    \/ MainStart
    \/ For
    \/ UrlOpen
    \/ ReadDecode
    \/ OpenFile
    \/ WriteFile
    \/ PrintDownloaded
    \/ Except
    \/ PrintDone

Next == Step \/ Rerun

Spec == Init /\ [][Next]_vars

\* A single run in which every blocking call returns or raises.
LiveSpec == Init /\ [][Step]_vars /\ WF_vars(Step)

\* ------------------------------------------------------------------ claims
\* What the k-th item of BOOKS is expected to request and to write.
ExpectedUrl(k) ==
    [host |-> "www.gutenberg.org", epub |-> BOOKS[k][1], pg |-> BOOKS[k][1]]
ExpectedPath(k) == [dir |-> OUTPUT_DIR, name |-> BOOKS[k][2], ext |-> ".txt"]

\* The process is inside a call of download_gutenberg_book, or in the handler
\* of the exception it raised.
InCall == pc \in {"urlopen", "read", "open", "write", "print_ok", "except"}

\* Items of this run whose call has ended, by return or by a caught exception.
Finished == IF InCall \/ pc = "crashed" THEN i - 1 ELSE i

\* The console lines after the two opening lines, the closing line excluded.
ItemLines ==
    SelectSeq(log, LAMBDA l : l.kind \in {"Downloaded", "Failed to download"})

IsPrefix(s, t) == Len(s) <= Len(t) /\ s = SubSeq(t, 1, Len(s))

\* C1: download_all_books hands the items to download_gutenberg_book in list
\* order, each exactly once, whatever the outcomes: the items attempted so far
\* are always the first i items of BOOKS, an item is taken only when all
\* earlier items have finished (each has its console line), and when the loop
\* has been left every item has been attempted.
C1_EveryItemOnceInOrder ==
    /\ attempted = SubSeq(BOOKS, 1, i)
    /\ Len(ItemLines) = Finished
    /\ InCall => i >= 1 /\ Finished = Len(attempted) - 1
    /\ pc \in {"print_done", "done"} => attempted = Items

\* C1 witness: a finished run in which an item failed and the item after it
\* was attempted and succeeded.
C1_Witness ==
    /\ pc = "done"
    /\ attempted = Items
    /\ \E k \in 1..(Len(Items) - 1) :
          /\ ItemLines[k].kind = "Failed to download"
          /\ ItemLines[k + 1].kind = "Downloaded"

\* C2: no exception escapes download_all_books: the process never ends with
\* a traceback, and outside the call and its handler no exception is in
\* flight, whatever class was raised and however many items failed.
C2_NoErrorEscapes ==
    /\ pc # "crashed"
    /\ ~InCall => exc = None
    /\ pc = "except" => exc \in {"URLError", "HTTPError", "ConnectionResetError",
                                 "UnicodeDecodeError", "OSError"}

\* C2 witness: the loop was left normally after every item failed.
C2_Witness ==
    /\ pc = "print_done"
    /\ exc = None
    /\ Len(ItemLines) = Len(Items)
    /\ \A k \in 1..Len(ItemLines) : ItemLines[k].kind = "Failed to download"

\* C3: every run that starts reaches the state in which "Done!" has been
\* printed and the process has ended normally, and in that state every item
\* has been attempted and has finished.
C3_AlwaysReachesDone ==
    /\ (pc = "main") ~> (pc = "done")
    /\ [](pc = "done" =>
            /\ attempted = Items
            /\ Len(ItemLines) = Len(Items)
            /\ log[Len(log)].kind = "Done!"
            /\ exc = None)

\* C3 witness: "Done!" was printed in a run in which an item failed.
C3_Witness ==
    /\ pc = "done"
    /\ log[Len(log)].kind = "Done!"
    /\ \E k \in 1..Len(ItemLines) : ItemLines[k].kind = "Failed to download"

C5_OverwrittenWithFetchedBody ==
    /\ attempted = SubSeq(BOOKS, 1, i)
    /\ pc = "done" => Len(requests) = Len(Items)
    /\ (pc = "for" /\ ret # NoPath /\ before.exists) =>
          /\ files[ExpectedPath(i)].exists
          /\ Decode(files[ExpectedPath(i)].bytes).text = Decode(fetched).text

\* C6: a call that returned has written the file named after its own item;
\* and a step that changes a file changes the file named after the item whose
\* call is running, inside that call: every other file is left as it is.
C6_OnlyOwnFileWritten ==
    /\ []((pc = "for" /\ ret # NoPath) =>
            ret = ExpectedPath(i) /\ files[ExpectedPath(i)].exists)
    /\ [][\A p \in Paths :
             files'[p] # files[p] =>
                 /\ i >= 1
                 /\ p = ExpectedPath(i)
                 /\ pc \in {"open", "write"}
                 /\ i' = i]_vars

\* C6 witness: the second item has written its file, and the file the first
\* item wrote still holds what the first item wrote.
C6_Witness ==
    /\ pc = "for"
    /\ i = 2
    /\ ret = ExpectedPath(2)
    /\ files[ExpectedPath(1)] = FileOf(<<65>>)
    /\ files[ExpectedPath(2)].exists
    /\ files[ExpectedPath(2)].bytes # <<65>>

\* C7: the requests of a run are one per item attempted, in list order, each
\* for the item's own URL; a failed request is not repeated, and a finished
\* run has made as many requests as BOOKS has items.
C7_OneRequestPerItem ==
    /\ Len(requests) = IF pc = "urlopen" THEN i - 1 ELSE i
    /\ \A k \in 1..Len(requests) : requests[k] = ExpectedUrl(k)
    /\ pc = "done" => Len(requests) = Len(Items)

\* C7 witness: a finished run in which a request failed.
C7_Witness ==
    /\ pc = "done"
    /\ Len(requests) = Len(Items)
    /\ \E k \in 1..Len(ItemLines) :
          /\ ItemLines[k].kind = "Failed to download"
          /\ ItemLines[k].cause \in {"URLError", "HTTPError"}

\* C8: the console holds the two opening lines, then one line for each
\* finished item in list order, a success line or a failure line naming that
\* item, then, when the run has ended, the "Done!" line; and the success line
\* is printed when the item's file holds all the bytes written and is closed.
C8_LogShape ==
    /\ pc = "main" => log = <<>>
    /\ pc # "main" =>
          /\ Len(log) = 2 + Finished + (IF pc = "done" THEN 1 ELSE 0)
          /\ log[1] = Line("Downloading", "", "", Len(Items))
          /\ log[2] = Line("Saving to", OUTPUT_DIR, "", 0)
          /\ \A k \in 1..Finished :
                /\ log[2 + k].kind \in {"Downloaded", "Failed to download"}
                /\ log[2 + k].name = BOOKS[k][2]
          /\ pc = "done" =>
                /\ Finished = Len(Items)
                /\ log[Len(log)] = Line("Done!", "", "", 0)
    /\ pc = "print_ok" =>
          /\ fhs = {}
          /\ files[ExpectedPath(i)] = FileOf(TextWrite(content, linesep))
    /\ (pc = "for" /\ i >= 1) =>
          (log[2 + i].kind = "Downloaded" <=> ret # NoPath)

\* C8 witness: a finished run with a success line and a failure line.
C8_Witness ==
    /\ pc = "done"
    /\ \E k \in 1..Len(ItemLines) : ItemLines[k].kind = "Downloaded"
    /\ \E k \in 1..Len(ItemLines) : ItemLines[k].kind = "Failed to download"

\* C9: at most one response or file handle is open; no response is open
\* while the file is open or about to be opened; and whenever the loop takes
\* the next item or the run has ended, nothing is open.
C9_ResourcesScoped ==
    /\ Cardinality(conns) + Cardinality(fhs) <= 1
    /\ pc \in {"open", "write"} => conns = {}
    /\ fhs # {} => conns = {} /\ pc = "write"
    /\ pc \in {"main", "for", "urlopen", "print_done", "done"} =>
          conns = {} /\ fhs = {}

\* C9 witness: the loop is about to take the next item after an item failed
\* while its response was open, and after an item failed while its file was
\* open.
C9_Witness ==
    /\ pc = "for"
    /\ conns = {} /\ fhs = {}
    /\ \E k \in 1..Len(ItemLines) : ItemLines[k].cause = "UnicodeDecodeError"
    /\ \E k \in 1..Len(ItemLines) :
          ItemLines[k].cause = "OSError" /\ files[ExpectedPath(k)] = FileOf(<<195>>)

\* C10: the item's file is as it was when the call began until the body has
\* been read and decoded; so it is when the call fails with a network error,
\* a bad status or a decoding error.  A call that failed and changed its file
\* failed in the write, and the file then holds a leading part of the bytes
\* that were to be written; it still does when the handler has run.
C10_FileUntouchedUntilDecoded ==
    /\ pc \in {"urlopen", "read", "open"} => files[ExpectedPath(i)] = before
    /\ (pc = "except" /\ exc \in {"URLError", "HTTPError", "ConnectionResetError",
                                  "UnicodeDecodeError"}) =>
          files[ExpectedPath(i)] = before
    /\ (pc \in {"except", "for"} /\ i >= 1 /\ ret = NoPath
            /\ files[ExpectedPath(i)] # before) =>
          /\ pc = "except" => exc = "OSError"
          /\ pc = "for" => log[Len(log)].cause = "OSError"
          /\ content # Unbound
          /\ files[ExpectedPath(i)].exists
          /\ IsPrefix(files[ExpectedPath(i)].bytes, TextWrite(content, linesep))

\* C10 witness: in a second run, the first item's write failed and left a
\* partial file behind, and the second item failed in decoding and its file
\* from the first run is as it was.
C10_Witness ==
    /\ pc = "for"
    /\ i = 2
    /\ ItemLines[1].cause = "OSError"
    /\ files[ExpectedPath(1)] = FileOf(<<195>>)
    /\ ItemLines[2].cause = "UnicodeDecodeError"
    /\ before.exists
    /\ before.bytes # <<>>
    /\ files[ExpectedPath(2)] = before

====
